---- MODULE Spec2Model ----
(***************************************************************************)
(* gestorTareasBack: an Express back end that keeps users and tasks in two *)
(* JSON files.  routes/auth.js registers users and issues JWTs,            *)
(* routes/tasks.js guards every task route with authenticateJWT and does a *)
(* read-modify-write of the whole tasks file per request.                  *)
(*                                                                         *)
(* A JavaScript object is a function from property names to values; a      *)
(* property holding undefined is present in memory and dropped by          *)
(* JSON.stringify.  A file holds the text JSON.stringify produced.         *)
(* Handlers suspend at every await; a handler is split where another       *)
(* request can touch the file it works on: at its read and at its write.   *)
(***************************************************************************)
EXTENDS Integers, Naturals, Sequences, FiniteSets, TLC

\* ---------------------------------------------------------------- bounds
NumProcs == 2        \* requests that can be between their read and their write
MaxUuid == 2         \* uuidv4() calls in a run
MaxNested == 1       \* nested PUT registrations that are counted
MaxUsers == 2        \* records in users.json
MaxTime == 2         \* hours the clock advances

\* ------------------------------------------------------------- constants
ExpiresIn == 1       \* expiresIn: "1h", in hours

Procs == 1..NumProcs
Undefined == "undefined"
jwtSecret == "clave_secreta"
Usernames == {"alice", "bob"}
Passwords == {"pw1", "pw2"}

\* ------------------------------------------------------ JavaScript values
\* o.k : undefined when the object has no such property
Prop(o, k) == IF k \in DOMAIN o THEN o[k] ELSE Undefined

\* { ...a, ...b } : the properties of b override those of a
Spread(a, b) ==
  [k \in (DOMAIN a) \cup (DOMAIN b) |-> IF k \in DOMAIN b THEN b[k] ELSE a[k]]

\* JSON.parse(JSON.stringify(o)) of an object: undefined properties are dropped
DropUndefined(o) == [k \in {x \in DOMAIN o : o[x] # Undefined} |-> o[k]]

RECURSIVE DropAll(_)
DropAll(arr) ==
  IF arr = <<>> THEN <<>>
  ELSE <<DropUndefined(Head(arr))>> \o DropAll(Tail(arr))

\* JSON.stringify(array): the text written to the file
JSONStringify(arr) == [json |-> DropAll(arr)]

\* the text of a file fs.writeFile has truncated and not written yet
Truncated == [cut |-> ""]

\* whether readFile and JSON.parse deliver an array; when either throws the
\* handler's catch block runs
Parses(text) == "json" \in DOMAIN text

\* JSON.parse(text)
JSONParse(text) == text.json

\* arr.findIndex(test), given test's result on each element: the first index
\* that passes, -1 when none does
FindIndex(passes) ==
  IF \E i \in 1..Len(passes) : passes[i]
  THEN CHOOSE i \in 1..Len(passes) :
         passes[i] /\ \A j \in 1..(i - 1) : ~passes[j]
  ELSE -1

\* uuidv4(): the n-th identifier generated
Uuid(n) == "uuid-" \o ToString(n)

\* ------------------------------------------------------------ request data
\* req.body of POST /tasks: as the tests send it, and with an id and an owner
CreateBodies ==
  { [title |-> "T1", description |-> "D1"],
    [id |-> "1", username |-> "bob", title |-> "T1", description |-> "D1"] }

\* req.body of PUT /tasks/:id: as the tests send it, and with the properties the
\* handler reads, an id and an owner
UpdateBodies ==
  { [title |-> "T2", description |-> "D2"],
    [id |-> Uuid(2), username |-> "bob", titulo |-> "T2", descripcion |-> "D2"] }

\* req.params.id
TaskIds == {Uuid(n) : n \in 1..MaxUuid} \cup {"nonexistent-id"}

\* req.body of POST /auth/register and POST /auth/login
AuthBodies ==
  {[username |-> u, password |-> p] : u \in Usernames, p \in Passwords}
    \cup {[username |-> "alice"]}

\* req.body of POST /auth/register without a username, with an empty username,
\* with an empty password
InvalidBodies ==
  { [password |-> "pw1"],
    [username |-> "", password |-> "pw1"],
    [username |-> "alice", password |-> ""] }

\* ------------------------------------------------------------------ bcrypt
\* bcrypt.hash(password, 8): the digest of a string
BcryptHash(password) == "$2a$08$" \o password

\* bcrypt.compare(password, hash)
BcryptCompare(password, hash) == hash = BcryptHash(password)

\* ------------------------------------------------------------ jsonwebtoken
\* jwt.sign(payload, secret, { expiresIn: "1h" }) at clock t
JwtSign(payload, secret, t) ==
  [claims |-> Spread(DropUndefined(payload), [iat |-> t, exp |-> t + ExpiresIn]),
   sig |-> secret]

\* a token not signed with the server's secret
ForgedToken(u) == JwtSign([username |-> u], "otra_clave", 0)

\* jwt.sign({ username: 'usuario', role: 'admin' }, 'clave_secreta') of the
\* test suite, signed at clock 0: no expiresIn, so no exp claim
testToken ==
  [claims |-> Spread([username |-> "usuario", role |-> "admin"], [iat |-> 0]),
   sig |-> "clave_secreta"]

\* mutant: the exp claim is not looked at
JwtVerifyNoExp(token, secret, t) ==
  IF token.sig # secret
  THEN [err |-> TRUE]
  ELSE [err |-> FALSE, user |-> token.claims]

\* jwt.verify(token, secret, callback) at clock t: callback(err, user)
JwtVerify(token, secret, t) ==
  IF token.sig # secret
  THEN [err |-> TRUE]
  ELSE IF "exp" \in DOMAIN token.claims /\ t >= token.claims.exp
  THEN [err |-> TRUE]
  ELSE [err |-> FALSE, user |-> token.claims]

\* req.headers: without Authorization, with "Bearer <token>", with "Bearer" alone
NoAuthorization == [host |-> "localhost"]
Bearer(token) == [host |-> "localhost", authorization |-> <<"Bearer", token>>]
BearerNothing == [host |-> "localhost", authorization |-> <<"Bearer">>]

\* mutant: the token is decoded and not verified
authenticateDecodeOnly(headers, t) ==
  IF "authorization" \notin DOMAIN headers
  THEN [next |-> FALSE, status |-> 401, text |-> "Acceso denegado"]
  ELSE LET parts == headers.authorization IN
       IF Len(parts) < 2
       THEN [next |-> FALSE, status |-> 403, text |-> "Token invalido"]
       ELSE [next |-> TRUE, user |-> parts[2].claims]

\* authenticateJWT: next() with req.user set, or 401 / 403
authenticateJWT(headers, t) ==
  IF "authorization" \notin DOMAIN headers
  THEN [next |-> FALSE, status |-> 401, text |-> "Acceso denegado"]
  ELSE LET parts == headers.authorization IN
       IF Len(parts) < 2
       THEN [next |-> FALSE, status |-> 403, text |-> "Token invalido"]
       ELSE LET v == JwtVerify(parts[2], jwtSecret, t) IN
            IF v.err
            THEN [next |-> FALSE, status |-> 403, text |-> "Token invalido"]
            ELSE [next |-> TRUE, user |-> v.user]

\* ------------------------------------------------------------------- state
VARIABLES
  tasksFile,   \* data/tasks.json: the text last written
  usersFile,   \* data/users.json: the text last written
  putStack,    \* the router's PUT /:id layers, in registration order
  uuidCount,   \* identifiers uuidv4() has generated
  now,         \* the clock, in hours
  jar,         \* tokens the clients received from login
  pend,        \* per request slot: the handler suspended at its writeFile
  out,         \* the response sent last, with the request it answers
  created      \* history: the credentials whose register was answered 201

vars == <<tasksFile, usersFile, putStack, uuidCount, now, jar, pend, out, created>>

Idle == [op |-> "idle"]
Quiet == \A q \in Procs : pend[q].op = "idle"

\* res.status(status).json(body) / .send(body) for a request with req.headers
\* hdr of req.user.username user
Reply(op, hdr, user, id, req, status, body) ==
  [op |-> op, hdr |-> hdr, user |-> user, id |-> id, req |-> req,
   status |-> status, body |-> body]

\* the state no request has been answered in
NoReply == Reply("none", NoAuthorization, Undefined, Undefined, Undefined, 0, Undefined)

\* the response authenticateJWT sends when it does not call next()
Denied(op, headers, auth) ==
  Reply(op, headers, Undefined, Undefined, Undefined, auth.status, auth.text)

\* the response of a handler's catch block
ServerError(op, headers, user, id, req) ==
  Reply(op, headers, user, id, req, 500, "Error en el servidor")

\* the Authorization headers a client can send
Headers ==
  {NoAuthorization, BearerNothing}
    \cup {Bearer(t) : t \in jar}
    \cup {Bearer(ForgedToken("alice"))}

\* ----------------------------------------------------- routes/tasks.js logic
\* mutant: no ownership test, as in the router without authentication
OwnedByAnyone(task, user) == TRUE

\* task.username === req.user.username
OwnedBy(task, user) == Prop(task, "username") = Prop(user, "username")

\* mutant: task.id === taskId alone
MatchesIdOnly(task, taskId, user) == Prop(task, "id") = taskId

\* mutant: task.username === req.user.username alone
MatchesOwnerOnly(task, taskId, user) == OwnedBy(task, user)

\* task.id === taskId && task.username === req.user.username
Matches(task, taskId, user) == Prop(task, "id") = taskId /\ OwnedBy(task, user)

RECURSIVE NewestFirst(_)
NewestFirst(arr) ==
  IF arr = <<>> THEN <<>> ELSE Append(NewestFirst(Tail(arr)), Head(arr))

\* mutant: the filtered tasks, the last one first
UserTasksNewestFirst(tasks, user) ==
  NewestFirst(SelectSeq(tasks, LAMBDA task : OwnedBy(task, user)))

\* GET /: tasks.filter(task => task.username === req.user.username)
UserTasks(tasks, user) == SelectSeq(tasks, LAMBDA task : OwnedBy(task, user))

\* GET /:id: tasks.find(...), <<>> standing for "no task"
FindTask(tasks, taskId, user) ==
  LET i == FindIndex([j \in 1..Len(tasks) |-> Matches(tasks[j], taskId, user)])
  IN IF i = -1 THEN <<>> ELSE <<tasks[i]>>

\* mutant: { id: uuidv4(), username: req.user.username, ...req.body }
NewTaskBodyLast(body, uuid, user) ==
  Spread([id |-> uuid, username |-> Prop(user, "username")], body)

\* mutant: { id: uuidv4(), username: req.user.username }
NewTaskNoBody(body, uuid, user) ==
  [id |-> uuid, username |-> Prop(user, "username")]

\* POST /: { ...req.body, id: uuidv4(), username: req.user.username }
NewTask(body, uuid, user) ==
  Spread(body, [id |-> uuid, username |-> Prop(user, "username")])

\* mutant: tasks.filter(task => task.id !== taskId), as in the router without
\* authentication
WithoutTaskById(tasks, taskId, user) ==
  SelectSeq(tasks, LAMBDA task : Prop(task, "id") # taskId)

\* mutant: the filter keeps the caller's other tasks only
WithoutTaskOwnOnly(tasks, taskId, user) ==
  SelectSeq(tasks, LAMBDA task : Prop(task, "id") # taskId /\ OwnedBy(task, user))

\* DELETE /:id: tasks.filter(task => !(task.id === taskId && task.username === ...))
WithoutTask(tasks, taskId, user) ==
  SelectSeq(tasks, LAMBDA task : ~Matches(task, taskId, user))

\* mutant: every property of the body is assigned
PutFlatSpread(task, updatedTask) == Spread(task, updatedTask)

\* PUT /:id declared at module level: only titulo and descripcion are assigned
PutFlat(task, updatedTask) ==
  Spread(task, [titulo |-> Prop(updatedTask, "titulo"),
                descripcion |-> Prop(updatedTask, "descripcion")])

\* PUT /:id declared inside the DELETE handler: { ...tasks[i], ...updatedTask }
PutNested(task, updatedTask) == Spread(task, updatedTask)

\* mutant: the layer registered last handles the request
PutHandlerLast(stack) == stack[Len(stack)]

\* Express runs the first layer registered for PUT /:id; its handler always
\* ends the response and never calls next()
PutHandler(stack) == stack[1]

\* mutant: the layer is put in front of the router's stack
RegisterNestedFirst(stack) ==
  IF Len(stack) < 1 + MaxNested THEN <<"nested">> \o stack ELSE stack

\* router.put("/:id", ...) executed at the end of a DELETE request
RegisterNested(stack) ==
  IF Len(stack) < 1 + MaxNested THEN Append(stack, "nested") ELSE stack

\* -------------------------------------------------- routes/tasks.js handlers
\* GET /tasks
ListTasks(headers) ==
  LET auth == authenticateJWT(headers, now) IN
  /\ out' = IF ~auth.next
            THEN Denied("list", headers, auth)
            ELSE IF ~Parses(tasksFile)
            THEN ServerError("list", headers, Prop(auth.user, "username"),
                             Undefined, Undefined)
            ELSE LET tasks == JSONParse(tasksFile)
                     userTasks == UserTasks(tasks, auth.user)
                 IN Reply("list", headers, Prop(auth.user, "username"), Undefined,
                          Undefined, 200, DropAll(userTasks))
  /\ UNCHANGED <<tasksFile, usersFile, putStack, uuidCount, now, jar, pend, created>>

\* GET /tasks/:id
GetTask(headers, taskId) ==
  LET auth == authenticateJWT(headers, now) IN
  /\ out' = IF ~auth.next
            THEN Denied("get", headers, auth)
            ELSE IF ~Parses(tasksFile)
            THEN ServerError("get", headers, Prop(auth.user, "username"),
                             taskId, Undefined)
            ELSE LET tasks == JSONParse(tasksFile)
                     task == FindTask(tasks, taskId, auth.user)
                 IN IF task = <<>>
                    THEN Reply("get", headers, Prop(auth.user, "username"), taskId,
                               Undefined, 404, "Tarea no encontrada")
                    ELSE Reply("get", headers, Prop(auth.user, "username"), taskId,
                               Undefined, 200, DropUndefined(task[1]))
  /\ UNCHANGED <<tasksFile, usersFile, putStack, uuidCount, now, jar, pend, created>>

\* POST /tasks up to the call of writeFile; uuidv4() runs before readFile
CreateTask(p, headers, body) ==
  LET auth == authenticateJWT(headers, now) IN
  /\ pend[p].op = "idle"
  /\ IF ~auth.next
     THEN /\ out' = Denied("create", headers, auth)
          /\ UNCHANGED <<uuidCount, pend>>
     ELSE /\ uuidCount < MaxUuid
          /\ uuidCount' = uuidCount + 1
          /\ LET newTask == NewTask(body, Uuid(uuidCount + 1), auth.user) IN
             IF ~Parses(tasksFile)
             THEN /\ out' = ServerError("create", headers, Prop(auth.user, "username"),
                                        newTask.id, body)
                  /\ UNCHANGED pend
             ELSE /\ pend' = [pend EXCEPT ![p] =
                       [op |-> "create", hdr |-> headers,
                        user |-> Prop(auth.user, "username"),
                        id |-> newTask.id, body |-> body,
                        text |-> JSONStringify(Append(JSONParse(tasksFile), newTask)),
                        status |-> 201, reply |-> DropUndefined(newTask)]]
                  /\ UNCHANGED out
  /\ UNCHANGED <<tasksFile, usersFile, putStack, now, jar, created>>

\* POST /tasks: writeFile completes, res.status(201).json(newTask)
CreateWrite(p) ==
  /\ pend[p].op = "create"
  /\ tasksFile' = pend[p].text
  /\ out' = Reply("create", pend[p].hdr, pend[p].user, pend[p].id, pend[p].body,
                  pend[p].status, pend[p].reply)
  /\ pend' = [pend EXCEPT ![p] = Idle]
  /\ UNCHANGED <<usersFile, putStack, uuidCount, now, jar, created>>

\* DELETE /tasks/:id up to the call of writeFile; when the read fails the catch
\* block answers 500 and the nested router.put("/:id", ...) statement still runs
DeleteTask(p, headers, taskId) ==
  LET auth == authenticateJWT(headers, now) IN
  /\ pend[p].op = "idle"
  /\ IF ~auth.next
     THEN /\ out' = Denied("delete", headers, auth)
          /\ UNCHANGED <<pend, putStack>>
     ELSE IF ~Parses(tasksFile)
     THEN /\ out' = ServerError("delete", headers, Prop(auth.user, "username"),
                                taskId, Undefined)
          /\ putStack' = RegisterNested(putStack)
          /\ UNCHANGED pend
     ELSE /\ LET tasks == WithoutTask(JSONParse(tasksFile), taskId, auth.user)
             IN pend' = [pend EXCEPT ![p] =
                  [op |-> "delete", hdr |-> headers,
                   user |-> Prop(auth.user, "username"),
                   id |-> taskId, body |-> Undefined,
                   text |-> JSONStringify(tasks),
                   status |-> 200, reply |-> "Tarea eliminada"]]
          /\ UNCHANGED <<out, putStack>>
  /\ UNCHANGED <<tasksFile, usersFile, uuidCount, now, jar, created>>

\* DELETE /tasks/:id: writeFile completes, res.status(200), then the nested
\* router.put("/:id", ...) statement runs
DeleteWrite(p) ==
  /\ pend[p].op = "delete"
  /\ tasksFile' = pend[p].text
  /\ out' = Reply("delete", pend[p].hdr, pend[p].user, pend[p].id, pend[p].body,
                  pend[p].status, pend[p].reply)
  /\ putStack' = RegisterNested(putStack)
  /\ pend' = [pend EXCEPT ![p] = Idle]
  /\ UNCHANGED <<usersFile, uuidCount, now, jar, created>>

\* PUT /tasks/:id, by the layer Express dispatches to, up to the call of writeFile
UpdateTask(p, headers, taskId, updatedTask) ==
  LET auth == authenticateJWT(headers, now) IN
  /\ pend[p].op = "idle"
  /\ IF ~auth.next
     THEN /\ out' = Denied("update", headers, auth)
          /\ UNCHANGED pend
     ELSE IF ~Parses(tasksFile)
     THEN /\ out' = ServerError("update", headers, Prop(auth.user, "username"),
                                taskId, updatedTask)
          /\ UNCHANGED pend
     ELSE LET tasks == JSONParse(tasksFile)
              taskIndex == FindIndex([j \in 1..Len(tasks) |->
                                       Matches(tasks[j], taskId, auth.user)])
          IN IF taskIndex = -1
             THEN /\ out' = Reply("update", headers, Prop(auth.user, "username"),
                                  taskId, updatedTask, 404, "Tarea no encontrada")
                  /\ UNCHANGED pend
             ELSE LET merged == IF PutHandler(putStack) = "flat"
                                THEN PutFlat(tasks[taskIndex], updatedTask)
                                ELSE PutNested(tasks[taskIndex], updatedTask)
                      updated == [tasks EXCEPT ![taskIndex] = merged]
                  IN /\ pend' = [pend EXCEPT ![p] =
                          [op |-> "update", hdr |-> headers,
                           user |-> Prop(auth.user, "username"),
                           id |-> taskId, body |-> updatedTask,
                           text |-> JSONStringify(updated),
                           status |-> 200, reply |-> DropUndefined(merged)]]
                     /\ UNCHANGED out
  /\ UNCHANGED <<tasksFile, usersFile, putStack, uuidCount, now, jar, created>>

\* PUT /tasks/:id: writeFile completes, res.status(200).json(tasks[taskIndex])
UpdateWrite(p) ==
  /\ pend[p].op = "update"
  /\ tasksFile' = pend[p].text
  /\ out' = Reply("update", pend[p].hdr, pend[p].user, pend[p].id, pend[p].body,
                  pend[p].status, pend[p].reply)
  /\ pend' = [pend EXCEPT ![p] = Idle]
  /\ UNCHANGED <<usersFile, putStack, uuidCount, now, jar, created>>

\* --------------------------------------------------- routes/auth.js handlers
\* mutant: the first record, whatever its username
FindUserFirst(users, username) ==
  IF users = <<>> THEN <<>> ELSE <<users[1]>>

\* users.find((u) => u.username === username), <<>> standing for "no user"
FindUser(users, username) ==
  LET i == FindIndex([j \in 1..Len(users) |-> Prop(users[j], "username") = username])
  IN IF i = -1 THEN <<>> ELSE <<users[i]>>

\* POST /auth/register up to the call of writeFile; bcrypt.hash rejects a
\* password that is not a string and the catch block answers 500
Register(p, body) ==
  LET username == Prop(body, "username")
      password == Prop(body, "password")
  IN /\ pend[p].op = "idle"
     /\ IF ~Parses(usersFile) \/ password = Undefined
        THEN /\ out' = ServerError("register", NoAuthorization, username, Undefined, body)
             /\ UNCHANGED pend
        ELSE /\ Len(JSONParse(usersFile)) < MaxUsers
             /\ LET users == JSONParse(usersFile)
                    hashedPassword == BcryptHash(password)
                    pushed == Append(users, [username |-> username,
                                             password |-> hashedPassword])
                IN pend' = [pend EXCEPT ![p] =
                     [op |-> "register", hdr |-> NoAuthorization,
                      user |-> username, id |-> Undefined,
                      body |-> body, text |-> JSONStringify(pushed),
                      status |-> 201, reply |-> "Usuario registrado"]]
             /\ UNCHANGED out
     /\ UNCHANGED <<tasksFile, usersFile, putStack, uuidCount, now, jar, created>>

\* POST /auth/register: writeFile completes, res.status(201)
RegisterWrite(p) ==
  /\ pend[p].op = "register"
  /\ usersFile' = pend[p].text
  /\ out' = Reply("register", pend[p].hdr, pend[p].user, pend[p].id, pend[p].body,
                  pend[p].status, pend[p].reply)
  /\ created' = created \cup {pend[p].body}
  /\ pend' = [pend EXCEPT ![p] = Idle]
  /\ UNCHANGED <<tasksFile, putStack, uuidCount, now, jar>>

\* POST /auth/login; the token of a 200 answer reaches the client
Login(body) ==
  LET username == Prop(body, "username")
      password == Prop(body, "password")
      user == FindUser(JSONParse(usersFile), username)
  IN IF ~Parses(usersFile)
     THEN /\ out' = ServerError("login", NoAuthorization, username, Undefined, body)
          /\ UNCHANGED <<tasksFile, usersFile, putStack, uuidCount, now, jar, pend, created>>
     ELSE IF user = <<>>
     THEN /\ out' = Reply("login", NoAuthorization, username, Undefined, body,
                          401, "Credenciales invalidas")
          /\ UNCHANGED <<tasksFile, usersFile, putStack, uuidCount, now, jar, pend, created>>
     ELSE IF password = Undefined
     THEN /\ out' = ServerError("login", NoAuthorization, username, Undefined, body)
          /\ UNCHANGED <<tasksFile, usersFile, putStack, uuidCount, now, jar, pend, created>>
     ELSE IF ~BcryptCompare(password, user[1].password)
     THEN /\ out' = Reply("login", NoAuthorization, username, Undefined, body,
                          401, "Credenciales invalidas")
          /\ UNCHANGED <<tasksFile, usersFile, putStack, uuidCount, now, jar, pend, created>>
     ELSE LET token == JwtSign([username |-> Prop(user[1], "username")], jwtSecret, now)
          IN /\ out' = Reply("login", NoAuthorization, username, Undefined, body,
                             200, [token |-> token])
             /\ jar' = jar \cup {token}
             /\ UNCHANGED <<tasksFile, usersFile, putStack, uuidCount, now, pend, created>>

\* ------------------------------------------------------------- environment
\* an hour passes
Tick ==
  /\ now < MaxTime
  /\ now' = now + 1
  /\ UNCHANGED <<tasksFile, usersFile, putStack, uuidCount, jar, pend, out, created>>

\* fs.writeFile(path, text) has opened the file, which truncates it, and has
\* not written the text yet
WriteOpen(p) ==
  /\ pend[p].op # "idle"
  /\ IF pend[p].op = "register"
     THEN usersFile' = Truncated /\ UNCHANGED tasksFile
     ELSE tasksFile' = Truncated /\ UNCHANGED usersFile
  /\ UNCHANGED <<putStack, uuidCount, now, jar, pend, out, created>>

\* fs.writeFile rejects, before it opened the file or after it truncated it;
\* the catch block answers 500, and DELETE then registers the nested PUT
WriteFail(p) ==
  /\ pend[p].op # "idle"
  /\ \E left \in {"untouched", "truncated"} :
       IF left = "untouched"
       THEN UNCHANGED <<tasksFile, usersFile>>
       ELSE IF pend[p].op = "register"
       THEN usersFile' = Truncated /\ UNCHANGED tasksFile
       ELSE tasksFile' = Truncated /\ UNCHANGED usersFile
  /\ out' = ServerError(pend[p].op, pend[p].hdr, pend[p].user, pend[p].id, pend[p].body)
  /\ putStack' = IF pend[p].op = "delete" THEN RegisterNested(putStack) ELSE putStack
  /\ pend' = [pend EXCEPT ![p] = Idle]
  /\ UNCHANGED <<uuidCount, now, jar, created>>

\* ---------------------------------------------------------- specifications
\* both files hold "[]", as the README asks and the tests' beforeEach writes
InitAuth ==
  /\ tasksFile = JSONStringify(<<>>)
  /\ usersFile = JSONStringify(<<>>)
  /\ putStack = <<"flat">>
  /\ uuidCount = 0
  /\ now = 0
  /\ jar = {}
  /\ pend = [p \in Procs |-> Idle]
  /\ out = NoReply
  /\ created = {}

\* alice and bob have registered and logged in; no task exists yet
Registered == { [username |-> "alice", password |-> "pw1"],
                [username |-> "bob", password |-> "pw2"] }

Init ==
  /\ tasksFile = JSONStringify(<<>>)
  /\ usersFile = JSONStringify(
       << [username |-> "alice", password |-> BcryptHash("pw1")],
          [username |-> "bob", password |-> BcryptHash("pw2")] >>)
  /\ putStack = <<"flat">>
  /\ uuidCount = 0
  /\ now = 0
  /\ jar = {JwtSign([username |-> u], jwtSecret, 0) : u \in Usernames}
  /\ pend = [p \in Procs |-> Idle]
  /\ out = NoReply
  /\ created = Registered

\* the task routes, each request answered before the next one arrives
Next ==
  \/ Quiet /\ \E h \in Headers : ListTasks(h)
  \/ Quiet /\ \E h \in Headers, i \in TaskIds : GetTask(h, i)
  \/ Quiet /\ \E p \in Procs, h \in Headers, b \in CreateBodies : CreateTask(p, h, b)
  \/ \E p \in Procs : CreateWrite(p)
  \/ Quiet /\ \E p \in Procs, h \in Headers, i \in TaskIds : DeleteTask(p, h, i)
  \/ \E p \in Procs : DeleteWrite(p)
  \/ Quiet /\ \E p \in Procs, h \in Headers, i \in TaskIds, b \in UpdateBodies :
       UpdateTask(p, h, i, b)
  \/ \E p \in Procs : UpdateWrite(p)

Spec == Init /\ [][Next]_vars

\* POST /tasks requests of alice and GET /tasks requests, interleaving at
\* their awaits
NextCreate ==
  \/ \E p \in Procs, b \in CreateBodies :
       CreateTask(p, Bearer(JwtSign([username |-> "alice"], jwtSecret, 0)), b)
  \/ \E p \in Procs : CreateWrite(p)
  \/ \E h \in Headers : ListTasks(h)

SpecCreate == Init /\ [][NextCreate]_vars

\* the auth routes and the middleware, requests interleaving at their awaits
NextAuth ==
  \/ \E p \in Procs, b \in AuthBodies : Register(p, b)
  \/ \E p \in Procs : RegisterWrite(p)
  \/ \E b \in AuthBodies : Login(b)
  \/ \E h \in Headers : ListTasks(h)

SpecAuth == InitAuth /\ [][NextAuth]_vars

\* the auth routes, each request answered before the next one arrives
NextAuthSeq ==
  \/ Quiet /\ \E p \in Procs, b \in AuthBodies \cup InvalidBodies : Register(p, b)
  \/ \E p \in Procs : RegisterWrite(p)
  \/ Quiet /\ \E b \in AuthBodies \cup InvalidBodies : Login(b)

SpecAuthSeq == InitAuth /\ [][NextAuthSeq]_vars

\* alice and bob have registered, alice has logged in, and the test suite holds
\* its testToken; no task exists yet
InitGate ==
  /\ tasksFile = JSONStringify(<<>>)
  /\ usersFile = JSONStringify(
       << [username |-> "alice", password |-> BcryptHash("pw1")],
          [username |-> "bob", password |-> BcryptHash("pw2")] >>)
  /\ putStack = <<"flat">>
  /\ uuidCount = 0
  /\ now = 0
  /\ jar = {JwtSign([username |-> "alice"], jwtSecret, 0), testToken}
  /\ pend = [p \in Procs |-> Idle]
  /\ out = NoReply
  /\ created = Registered

\* the requests of the clients of InitGate
GateLogin == [username |-> "alice", password |-> "pw1"]
GateCreate == [title |-> "T1", description |-> "D1"]
GateUpdate == [title |-> "T2", description |-> "D2"]

\* the task routes and login while hours pass, each request answered before
\* the next one arrives and before the clock advances
NextGate ==
  \/ Quiet /\ Tick
  \/ Quiet /\ Login(GateLogin)
  \/ Quiet /\ \E h \in Headers : ListTasks(h)
  \/ Quiet /\ \E h \in Headers, i \in TaskIds : GetTask(h, i)
  \/ Quiet /\ \E h \in Headers : CreateTask(1, h, GateCreate)
  \/ CreateWrite(1)
  \/ Quiet /\ \E h \in Headers, i \in TaskIds : DeleteTask(1, h, i)
  \/ DeleteWrite(1)
  \/ Quiet /\ \E h \in Headers, i \in TaskIds : UpdateTask(1, h, i, GateUpdate)
  \/ UpdateWrite(1)

SpecGate == InitGate /\ [][NextGate]_vars

\* the Authorization header of alice's requests
AliceHeaders == Bearer(JwtSign([username |-> "alice"], jwtSecret, 0))

\* alice has registered and logged in; no task exists yet
InitIO ==
  /\ tasksFile = JSONStringify(<<>>)
  /\ usersFile = JSONStringify(
       << [username |-> "alice", password |-> BcryptHash("pw1")] >>)
  /\ putStack = <<"flat">>
  /\ uuidCount = 0
  /\ now = 0
  /\ jar = {JwtSign([username |-> "alice"], jwtSecret, 0)}
  /\ pend = [p \in Procs |-> Idle]
  /\ out = NoReply
  /\ created = {GateLogin}

\* req.body of bob's POST /auth/register
GateRegister == [username |-> "bob", password |-> "pw2"]

\* requests of alice and a registration interleaving at their awaits, with
\* writeFile taking effect in two steps or failing
NextIO ==
  \/ \E p \in Procs : CreateTask(p, AliceHeaders, GateCreate)
  \/ \E p \in Procs : CreateWrite(p)
  \/ \E p \in Procs : DeleteTask(p, AliceHeaders, Uuid(1))
  \/ \E p \in Procs : DeleteWrite(p)
  \/ \E p \in Procs : UpdateTask(p, AliceHeaders, Uuid(1), GateUpdate)
  \/ \E p \in Procs : UpdateWrite(p)
  \/ \E p \in Procs : Register(p, GateRegister)
  \/ \E p \in Procs : RegisterWrite(p)
  \/ Login(GateLogin)
  \/ ListTasks(AliceHeaders)
  \/ GetTask(AliceHeaders, Uuid(1))
  \/ \E p \in Procs : WriteOpen(p)
  \/ \E p \in Procs : WriteFail(p)

SpecIO == InitIO /\ [][NextIO]_vars

\* registrations, logins and POST /tasks requests with the tokens login gave,
\* interleaving at their awaits
NextOwner ==
  \/ \E p \in Procs, b \in Registered : Register(p, b)
  \/ \E p \in Procs : RegisterWrite(p)
  \/ \E b \in Registered : Login(b)
  \/ \E p \in Procs, h \in Headers : CreateTask(p, h, GateCreate)
  \/ \E p \in Procs : CreateWrite(p)

SpecOwner == InitAuth /\ [][NextOwner]_vars

\* req.body of a PUT /tasks/:id that carries the id of another task
IdsUpdate == [id |-> Uuid(2), titulo |-> "T2", descripcion |-> "D2"]

\* POST, PUT and DELETE requests of alice interleaving at their awaits
NextIds ==
  \/ \E p \in Procs : CreateTask(p, AliceHeaders, GateCreate)
  \/ \E p \in Procs : CreateWrite(p)
  \/ \E p \in Procs : UpdateTask(p, AliceHeaders, Uuid(1), IdsUpdate)
  \/ \E p \in Procs : UpdateWrite(p)
  \/ \E p \in Procs, i \in {Uuid(1), Uuid(2)} : DeleteTask(p, AliceHeaders, i)
  \/ \E p \in Procs : DeleteWrite(p)

SpecIds == Init /\ [][NextIds]_vars

\* the ids of the tasks GET /tasks shows: what a client can put in req.params.id
StoredIds == {Prop(JSONParse(tasksFile)[i], "id") : i \in 1..Len(JSONParse(tasksFile))}

\* POST requests of alice, her PUT and DELETE requests on tasks she sees in the
\* collection and her GET requests, interleaving at their awaits
NextDelete ==
  \/ \E p \in Procs : CreateTask(p, AliceHeaders, GateCreate)
  \/ \E p \in Procs : CreateWrite(p)
  \/ \E p \in Procs, i \in StoredIds : UpdateTask(p, AliceHeaders, i, GateUpdate)
  \/ \E p \in Procs : UpdateWrite(p)
  \/ \E p \in Procs, i \in StoredIds : DeleteTask(p, AliceHeaders, i)
  \/ \E p \in Procs : DeleteWrite(p)
  \/ ListTasks(AliceHeaders)
  \/ \E i \in TaskIds : GetTask(AliceHeaders, i)

SpecDelete == Init /\ [][NextDelete]_vars

\* ------------------------------------------------------------------ claims
\* the persisted task collection, and what the claims read of a task
Tasks == JSONParse(tasksFile)
IdOf(t) == Prop(t, "id")
Owner(t) == Prop(t, "username")
TasksOfOthers(tasks, identity) == SelectSeq(tasks, LAMBDA t : Owner(t) # identity)
TasksOf(tasks, identity) == SelectSeq(tasks, LAMBDA t : Owner(t) = identity)
Answered(p) == pend[p].op # "idle" /\ pend'[p].op = "idle"

\* C1: a List answered 200 holds only tasks owned by the identity that asked,
\* a Get answered 200 returns a task owned by the identity that asked, and a
\* Get with the id of a task owned by another identity is answered 404.
C1_ReadIsolation ==
  /\ (out.op = "list" /\ out.status = 200) =>
       \A i \in 1..Len(out.body) : Owner(out.body[i]) = out.user
  /\ (out.op = "get" /\ out.status = 200) =>
       Owner(out.body) = out.user /\ IdOf(out.body) = out.id
  /\ (out.op = "get" /\ out.status \in {200, 404}
        /\ \E i \in 1..Len(Tasks) :
             IdOf(Tasks[i]) = out.id /\ Owner(Tasks[i]) # out.user) =>
       out.status = 404

C1_Witness ==
  /\ out.op = "get" /\ out.status = 404
  /\ \E i \in 1..Len(Tasks) : IdOf(Tasks[i]) = out.id /\ Owner(Tasks[i]) # out.user

\* C2: an Update with the id of a task of another identity is answered 404, a
\* Delete is answered 200, and the write of an Update or a Delete leaves the
\* tasks of every other identity in the collection as they were.
C2_WriteIsolation ==
  [][ /\ (out'.op = "update" /\ out'.status \in {200, 404}
            /\ \E i \in 1..Len(Tasks) :
                 IdOf(Tasks[i]) = out'.id /\ Owner(Tasks[i]) # out'.user) =>
           (out'.status = 404 /\ tasksFile' = tasksFile)
      /\ \A p \in Procs :
           (Answered(p) /\ pend[p].op \in {"update", "delete"}) =>
             /\ TasksOfOthers(Tasks', pend[p].user) = TasksOfOthers(Tasks, pend[p].user)
             /\ pend[p].op = "delete" => out'.status = 200 ]_vars

C2_Witness ==
  /\ out.op = "delete" /\ out.status = 200
  /\ \E i \in 1..Len(Tasks) : IdOf(Tasks[i]) = out.id /\ Owner(Tasks[i]) # out.user

\* C3: once every Create request of alice has been answered 201, the collection
\* holds one task per request.
C3_NoLostCreate ==
  Quiet => /\ Len(Tasks) = uuidCount
           /\ \A n \in 1..uuidCount : \E i \in 1..Len(Tasks) : IdOf(Tasks[i]) = Uuid(n)

\* two Create requests answered, none lost: the writes did not overlap
C3_Witness ==
  Quiet /\ uuidCount = 2 /\ Len(Tasks) = 2

\* C4: the write of an Update answered 200 leaves every stored task with the id
\* and the owner it had, and the record returned has the id asked for and the
\* owner that asked, whatever the payload carries.
C4_UpdateKeepsIdOwner ==
  [][ \A p \in Procs :
        (Answered(p) /\ pend[p].op = "update") =>
          /\ Len(Tasks') = Len(Tasks)
          /\ \A i \in 1..Len(Tasks) :
               IdOf(Tasks'[i]) = IdOf(Tasks[i]) /\ Owner(Tasks'[i]) = Owner(Tasks[i])
          /\ out'.status = 200
          /\ IdOf(out'.body) = pend[p].id /\ Owner(out'.body) = pend[p].user ]_vars

C4_Witness ==
  /\ out.op = "update" /\ out.status = 200
  /\ "id" \in DOMAIN out.req /\ out.req.id # out.id
  /\ "username" \in DOMAIN out.req /\ out.req.username # out.user
  /\ Len(putStack) > 1

\* C5: an Update answered 200 whose payload has a title and a description
\* returns a record with that title and description, and the identity's tasks
\* in the collection then show the task with them.
C5_UpdateReplacesTitle ==
  (out.op = "update" /\ out.status = 200
     /\ "title" \in DOMAIN out.req /\ "description" \in DOMAIN out.req) =>
    /\ Prop(out.body, "title") = out.req.title
    /\ Prop(out.body, "description") = out.req.description
    /\ \E i \in 1..Len(Tasks) :
         /\ IdOf(Tasks[i]) = out.id /\ Owner(Tasks[i]) = out.user
         /\ Prop(Tasks[i], "title") = out.req.title
         /\ Prop(Tasks[i], "description") = out.req.description

\* what GET /tasks answers the identity when the file holds text
ListOf(text, identity) == DropAll(TasksOf(JSONParse(text), identity))

\* C6: the task a Create stores and returns has the identity of the token as
\* owner and an id no stored task had, which is not the payload's id; the
\* payload's owner is not stored.
C6_CreateAssignsIdOwner ==
  [][ \A p \in Procs :
        (Answered(p) /\ pend[p].op = "create") =>
          LET stored == Tasks'[Len(Tasks')] IN
          /\ Len(Tasks') = Len(Tasks) + 1
          /\ out'.status = 201 /\ out'.body = stored
          /\ Owner(stored) = pend[p].user
          /\ \A i \in 1..Len(Tasks) : IdOf(Tasks[i]) # IdOf(stored)
          /\ IdOf(stored) # Prop(pend[p].body, "id")
          /\ \E n \in 1..uuidCount : IdOf(stored) = Uuid(n) ]_vars

C6_Witness ==
  /\ out.op = "create" /\ out.status = 201
  /\ "id" \in DOMAIN out.req /\ "username" \in DOMAIN out.req
  /\ out.req.username # out.user

\* C7: the write of a Create answered 201 makes the identity's List hold what
\* it held before followed by one new task, which has the payload's title and
\* description, a generated id and the identity as owner; and a List answered
\* 200 returns exactly the identity's tasks of the collection.
C7_CreateThenList ==
  [][ /\ \A p \in Procs :
           (Answered(p) /\ pend[p].op = "create") =>
             LET before == ListOf(tasksFile, pend[p].user)
                 after == ListOf(tasksFile', pend[p].user)
             IN /\ out'.status = 201
                /\ Len(after) = Len(before) + 1
                /\ SubSeq(after, 1, Len(before)) = before
                /\ Prop(after[Len(after)], "title") = Prop(pend[p].body, "title")
                /\ Prop(after[Len(after)], "description") = Prop(pend[p].body, "description")
                /\ IdOf(after[Len(after)]) \notin {Undefined, ""}
                /\ Owner(after[Len(after)]) = pend[p].user
      /\ (out'.op = "list" /\ out'.status = 200) =>
           out'.body = ListOf(tasksFile', out'.user) ]_vars

C7_Witness ==
  /\ out.op = "list" /\ out.status = 200 /\ Len(out.body) = 2
  /\ Prop(out.body[2], "title") = "T1" /\ Owner(out.body[2]) = out.user

\* C8: a Delete is answered 200, and when no task has the id and the identity
\* as owner its write leaves the collection as it was.
C8_DeleteIdempotent ==
  [][ \A p \in Procs :
        (Answered(p) /\ pend[p].op = "delete") =>
          /\ out'.status = 200
          /\ (~ \E i \in 1..Len(Tasks) :
                  IdOf(Tasks[i]) = pend[p].id /\ Owner(Tasks[i]) = pend[p].user) =>
               tasksFile' = tasksFile ]_vars

C8_Witness ==
  /\ out.op = "delete" /\ out.status = 200 /\ out.id = Uuid(1)
  /\ uuidCount >= 1 /\ Len(Tasks) >= 1
  /\ ~ \E i \in 1..Len(Tasks) : IdOf(Tasks[i]) = out.id

\* C9: the write of a Delete removes the tasks with the id and the identity as
\* owner and keeps every other task, unchanged and in order; the identity's
\* List then holds no task with the id.
C9_DeleteRemovesExactly ==
  [][ \A p \in Procs :
        (Answered(p) /\ pend[p].op = "delete") =>
          /\ Tasks' = SelectSeq(Tasks, LAMBDA t :
                        ~(IdOf(t) = pend[p].id /\ Owner(t) = pend[p].user))
          /\ \A i \in 1..Len(ListOf(tasksFile', pend[p].user)) :
               IdOf(ListOf(tasksFile', pend[p].user)[i]) # pend[p].id ]_vars

C9_Witness ==
  /\ out.op = "delete" /\ out.status = 200 /\ out.id = Uuid(1)
  /\ Len(Tasks) = 1 /\ IdOf(Tasks[1]) = Uuid(2) /\ uuidCount = 2

\* C10: a login with credentials whose register was answered 201 is answered
\* 200 with a token that authenticateJWT accepts and resolves to the username.
C10_LoginAfterRegister ==
  (out.op = "login" /\ out.req \in created) =>
    /\ out.status = 200
    /\ LET auth == authenticateJWT(Bearer(out.body.token), now)
       IN auth.next /\ Prop(auth.user, "username") = out.user

\* the persisted user collection, and what the claims read of a record
Users == JSONParse(usersFile)
UsernameOf(u) == Prop(u, "username")
Verifies(password, u) == u.password = BcryptHash(password)

\* C11: a login is answered 401 with no token when no record has the username,
\* and when the password supplied verifies against the hash of no record with
\* the username; and it leaves the user collection as it was.
C11_LoginUnauthorized ==
  [][ (out' # out /\ out'.op = "login") =>
        /\ usersFile' = usersFile
        /\ ( \/ \A i \in 1..Len(Users) :
                  UsernameOf(Users[i]) # Prop(out'.req, "username")
             \/ /\ "password" \in DOMAIN out'.req
                /\ \A i \in 1..Len(Users) :
                     UsernameOf(Users[i]) = Prop(out'.req, "username") =>
                       ~Verifies(out'.req.password, Users[i]) ) =>
             /\ out'.status = 401
             /\ out'.body = "Credenciales invalidas"
             /\ jar' = jar ]_vars

\* a wrong password for a registered username was answered 401
C11_Witness ==
  /\ out.op = "login" /\ out.status = 401 /\ "password" \in DOMAIN out.req
  /\ \E i \in 1..Len(Users) : UsernameOf(Users[i]) = out.user

\* C12: no two records of the user collection have the same username, and a
\* register answered 201 left exactly one record with its username.
C12_UsernameUnique ==
  /\ \A i, j \in 1..Len(Users) :
       UsernameOf(Users[i]) = UsernameOf(Users[j]) => i = j
  /\ (out.op = "register" /\ out.status = 201) =>
       Cardinality({i \in 1..Len(Users) : UsernameOf(Users[i]) = out.user}) <= 1

\* C13: a register whose body has no username or an empty one, or no password
\* or an empty one, is answered 400 and the user collection stays as it was.
C13_RegisterRejectsInvalid ==
  [][ (out' # out /\ out'.op = "register"
         /\ (Prop(out'.req, "username") \in {Undefined, ""}
               \/ Prop(out'.req, "password") \in {Undefined, ""})) =>
        (out'.status = 400 /\ usersFile' = usersFile) ]_vars

\* what the claims read of a request's headers
TaskOps == {"list", "get", "create", "update", "delete"}
NoHeader(h) == "authorization" \notin DOMAIN h
TokenOf(h) == h.authorization[2]
Malformed(h) == Len(h.authorization) < 2
BadSignature(h) == TokenOf(h).sig # "clave_secreta"
Expired(h, t) == "exp" \in DOMAIN TokenOf(h).claims /\ t >= TokenOf(h).claims.exp
BadToken(h, t) ==
  ~NoHeader(h) /\ (Malformed(h) \/ BadSignature(h) \/ Expired(h, t))

\* C14: a task request without an authorization header is answered 401, one
\* whose token is missing from the header, not signed with the secret or
\* expired is answered 403; the answer carries the refusal text only, the
\* tasks file, the router and the suspended handlers stay as they were, and no
\* handler is suspended at a writeFile for such a request.
C14_Gate ==
  [][ /\ (out' # out /\ out'.op \in TaskOps
            /\ (NoHeader(out'.hdr) \/ BadToken(out'.hdr, now))) =>
           /\ out'.status = IF NoHeader(out'.hdr) THEN 401 ELSE 403
           /\ out'.body = IF NoHeader(out'.hdr) THEN "Acceso denegado"
                          ELSE "Token invalido"
           /\ tasksFile' = tasksFile /\ pend' = pend
           /\ uuidCount' = uuidCount /\ putStack' = putStack
      /\ \A p \in Procs :
           (pend[p].op = "idle" /\ pend'[p].op \in TaskOps) =>
             ~NoHeader(pend'[p].hdr) /\ ~BadToken(pend'[p].hdr, now) ]_vars

\* an Update with a token of login that has expired was answered 403 while the
\* collection holds a task
C14_Witness ==
  /\ out.op = "update" /\ out.status = 403
  /\ ~NoHeader(out.hdr) /\ ~Malformed(out.hdr) /\ ~BadSignature(out.hdr)
  /\ Len(Tasks) > 0

\* a token a client holds because a login answered it
IssuedByLogin(token) == token \in jar /\ token # testToken
Accepted(status) == status \notin {401, 403}

\* C15: a task request presenting a token of login an hour or more after its
\* issue is answered 403, and a task request is accepted only with a token
\* issued less than an hour before.
C15_TokenOneHour ==
  [][ (out' # out /\ out'.op \in TaskOps
         /\ ~NoHeader(out'.hdr) /\ ~Malformed(out'.hdr)) =>
        LET token == TokenOf(out'.hdr) IN
        /\ (IssuedByLogin(token) /\ now >= token.claims.iat + 1) =>
             out'.status = 403
        /\ Accepted(out'.status) => now < token.claims.iat + 1 ]_vars

\* C15, amended: login issues a token stamped with the hour of issue and
\* expiring one hour later; a task request presenting a token of login is
\* accepted exactly when less than an hour has passed since its issue, and is
\* answered 403 otherwise; a token signed with the secret that has no exp
\* claim, the test suite's testToken, is accepted at any age.
C15_LoginTokenOneHour ==
  [][ /\ (out' # out /\ out'.op = "login" /\ out'.status = 200) =>
           /\ out'.body.token.claims.iat = now
           /\ out'.body.token.claims.exp = now + 1
           /\ out'.body.token \in jar'
      /\ (out' # out /\ out'.op \in TaskOps
            /\ ~NoHeader(out'.hdr) /\ ~Malformed(out'.hdr)) =>
           LET token == TokenOf(out'.hdr) IN
           /\ IssuedByLogin(token) =>
                /\ Accepted(out'.status) <=> now < token.claims.iat + 1
                /\ ~Accepted(out'.status) => out'.status = 403
           /\ token = testToken => Accepted(out'.status) ]_vars

\* a token that login issued at hour 1 was refused at hour 2
C15_Witness ==
  /\ out.op \in TaskOps /\ out.status = 403 /\ now = 2
  /\ ~NoHeader(out.hdr) /\ ~Malformed(out.hdr)
  /\ IssuedByLogin(TokenOf(out.hdr)) /\ TokenOf(out.hdr).claims.iat = 1

\* C16: a List or a Get answered while a request is suspended at the writeFile
\* of the tasks file, and a login answered while a register is suspended at
\* the writeFile of the users file, read a complete document: they are not
\* answered 500.
C16_AtomicWrites ==
  [][ /\ (out' # out /\ out'.op \in {"list", "get"}
            /\ \E p \in Procs : pend[p].op \in {"create", "update", "delete"}) =>
           out'.status # 500
      /\ (out' # out /\ out'.op = "login"
            /\ \E p \in Procs : pend[p].op = "register") =>
           out'.status # 500 ]_vars

\* C17: a request answered 500 leaves the tasks file and the users file as
\* they were, whether its read, its parse or its write failed.
C17_CleanFailure ==
  [][ (out' # out /\ out'.status = 500) =>
        (tasksFile' = tasksFile /\ usersFile' = usersFile) ]_vars

\* C18: the owner of every task of the persisted task collection is the
\* username of a record of the persisted user collection.
C18_OwnerValid ==
  \A i \in 1..Len(Tasks) :
    \E j \in 1..Len(Users) : UsernameOf(Users[j]) = Owner(Tasks[i])

\* C19: no two tasks of the persisted task collection have the same id.
C19_TaskIdUnique ==
  \A i, j \in 1..Len(Tasks) : IdOf(Tasks[i]) = IdOf(Tasks[j]) => i = j

\* an Update whose body carries the id of the other task was answered 200 after
\* a Delete of its task had been written: its write put the task back, and the
\* collection holds two tasks
C19_Witness ==
  /\ out.op = "update" /\ out.status = 200 /\ Prop(out.req, "id") # out.id
  /\ Len(putStack) > 1
  /\ Len(Tasks) = 2 /\ \E i \in 1..2 : IdOf(Tasks[i]) = Prop(out.req, "id")

\* C20: every username whose register was answered 201 has a record in the
\* user collection.
C20_RegisteredNeverLost ==
  \A c \in created :
    \E i \in 1..Len(Users) : UsernameOf(Users[i]) = Prop(c, "username")

\* a Delete of the task with the id, asked by its owner, has just been answered 200
DeleteAnswered(id) == out.op = "delete" /\ out.status = 200 /\ out.id = id

\* the id is in no task of the collection, and the response sent last is not a
\* List or a Get that returns a task with the id
Gone(id) ==
  /\ \A i \in 1..Len(Tasks) : IdOf(Tasks[i]) # id
  /\ (out.op = "list" /\ out.status = 200) =>
       \A i \in 1..Len(out.body) : IdOf(out.body[i]) # id
  /\ (out.op = "get" /\ out.status = 200) => IdOf(out.body) # id

\* C21: once a Delete of a task by its owner has been answered 200 the task
\* stays deleted: whichever request takes the step that follows the answer,
\* an Update of the same task running alongside included, the state it leads
\* to has no task with the id in the collection and no List or Get returning
\* one.
C21_DeletedStaysDeleted ==
  [][ \A id \in TaskIds : DeleteAnswered(id) => Gone(id)' ]_vars

\* the rank of a generated id in the order uuidv4() produced the ids, which is
\* the order the Create requests were persisted in when requests are answered
\* one at a time
CreatedNth(id) == CHOOSE n \in 1..uuidCount : id = "uuid-" \o ToString(n)
InCreationOrder(tasks) ==
  \A i, j \in 1..Len(tasks) :
    i < j => CreatedNth(IdOf(tasks[i])) < CreatedNth(IdOf(tasks[j]))

\* C22: a List answered 200 holds the identity's tasks in the order their
\* Creates were persisted, and so does the collection, after any Creates,
\* Updates and Deletes.
C22_ListInsertionOrder ==
  /\ (out.op = "list" /\ out.status = 200) => InCreationOrder(out.body)
  /\ \A u \in {"alice", "bob"} : InCreationOrder(TasksOf(Tasks, u))

\* a List returned two tasks, the older first, after the older one was updated
C22_Witness ==
  /\ out.op = "list" /\ out.status = 200 /\ Len(out.body) = 2
  /\ "titulo" \in DOMAIN out.body[1] /\ IdOf(out.body[1]) = "uuid-1"

\* C23: a Get or an Update that passed the middleware is answered 404 exactly
\* when no task of the collection has the id asked for and the identity as
\* owner; an Update answered 404 writes nothing; a List or a Get leaves the
\* tasks file as it was and suspends no handler at a writeFile.
C23_NotFoundExactly ==
  [][ /\ (out' # out /\ out'.op \in {"get", "update"} /\ Accepted(out'.status)) =>
           /\ out'.status = 404 <=>
                ~ \E i \in 1..Len(Tasks) :
                    IdOf(Tasks[i]) = out'.id /\ Owner(Tasks[i]) = out'.user
           /\ out'.status = 404 => (tasksFile' = tasksFile /\ pend' = pend)
      /\ (out' # out /\ out'.op \in {"list", "get"}) =>
           (tasksFile' = tasksFile /\ pend' = pend) ]_vars

\* an Update of an id no task has was answered 404 while the identity owns a
\* task
C23_Witness ==
  /\ out.op = "update" /\ out.status = 404 /\ out.id = "nonexistent-id"
  /\ \E i \in 1..Len(Tasks) : Owner(Tasks[i]) = out.user

\* C24: whatever Deletes were handled before, the PUT layer Express dispatches
\* to is the one declared at module level, and the write of an Update answered
\* 200 assigns titulo and descripcion from the body and leaves every other
\* property of the task as it was, the body's other fields not being merged.
C24_NestedNeverHandles ==
  [][ /\ putStack'[1] = "flat"
      /\ \A p \in Procs :
           (Answered(p) /\ pend[p].op = "update" /\ out'.status = 200) =>
             \E i \in 1..Len(Tasks) :
               /\ IdOf(Tasks[i]) = pend[p].id /\ Owner(Tasks[i]) = pend[p].user
               /\ Len(Tasks') = Len(Tasks)
               /\ \A k \in (DOMAIN Tasks[i]) \cup (DOMAIN Tasks'[i]) \cup (DOMAIN pend[p].body) :
                    Prop(Tasks'[i], k) =
                      IF k \in {"titulo", "descripcion"}
                      THEN Prop(pend[p].body, k)
                      ELSE Prop(Tasks[i], k)
               /\ out'.body = Tasks'[i] ]_vars

\* after a Delete registered the nested layer, an Update whose body has a title
\* was answered with the task's title unchanged
C24_Witness ==
  /\ Len(putStack) > 1
  /\ out.op = "update" /\ out.status = 200
  /\ "title" \in DOMAIN out.req /\ Prop(out.body, "title") # out.req.title

====
